---- MODULE Spec2Model ----
(***************************************************************************)
(* English Shadowing Tool: the playback / highlighting state of app.js     *)
(* (src/unnamed/part_002) on top of the TTS module (src/unnamed/part_001)  *)
(* and the browser's speech engine.  Every handler runs to completion, so  *)
(* each handler is one action.  The speech engine is the environment: it   *)
(* delivers word-boundary and terminal notifications for the utterance it  *)
(* is speaking and, late, for utterances that were cancelled.              *)
(* The tokenizer of prepareDisplay and the lookup of the Dictionary module *)
(* (src/js/dictionary.js) are pure functions; TokSpec and DictSpec apply   *)
(* them to bounded sets of texts, stores and surface forms.                *)
(***************************************************************************)
EXTENDS Integers, Sequences, FiniteSets, Bags, TLC

\* ------------------------------------------------------------------ bounds
MaxPending == 2        \* utterances (spoken or cancelled) plus pending restart timers
MaxRequests == 3       \* play, slow, shadow and single-word requests the user makes
MaxTextLen == 3        \* characters of a text handed to the tokenizer in TokSpec
MaxWalkLen == 3        \* characters of a text walked by handleWordBoundary in WalkSpec
MaxStoreKeys == 2      \* keys of a dictionary store in DictSpec

\* ------------------------------------------------------------ characters
\* \w of the JavaScript regular expressions: letters, digits, underscore.
WordChars == {"a", "H", "e", "l", "o", "w", "r", "d", "_"}
\* \s of the JavaScript regular expressions.
SpaceChars == {" "}
\* What the user may have in textInput when a button is clicked: nothing,
\* blanks only, punctuation only, one padded word, and the two-word sentence
\* "Hello world!".
HelloWorld == <<"H", "e", "l", "l", "o", " ", "w", "o", "r", "l", "d", "!">>

Inputs == { <<>>, <<" ">>, <<".", ".">>, <<" ", "a">>, HelloWorld }

\* --------------------------------------------------------------- tokenizer
\* String.prototype.trim
RECURSIVE TrimLeft(_)
TrimLeft(s) ==
    IF s # <<>> /\ Head(s) \in SpaceChars THEN TrimLeft(Tail(s)) ELSE s

RECURSIVE TrimRight(_)
TrimRight(s) ==
    IF s # <<>> /\ s[Len(s)] \in SpaceChars THEN TrimRight(SubSeq(s, 1, Len(s) - 1)) ELSE s

\* textInput.value taken as it is, without trim().
ValueUntrimmed(raw) == raw

\* textInput.value.trim()
getCurrentText(raw) == TrimRight(TrimLeft(raw))

\* The regular expression without its third alternative, \s+.
InClassNoSpace(c, k) ==
    CASE k = 1 -> c \in WordChars \/ c = "'"
      [] k = 2 -> c \notin WordChars /\ c \notin SpaceChars
      [] OTHER -> FALSE

\* The three alternatives of /[\w']+|[^\w\s]+|\s+/g, in the order they are tried.
InClass(c, k) ==
    CASE k = 1 -> c \in WordChars \/ c = "'"
      [] k = 2 -> c \notin WordChars /\ c \notin SpaceChars
      [] OTHER -> c \in SpaceChars

\* End (exclusive) of the greedy run of alternative k that starts at i.
RECURSIVE RunEnd(_, _, _)
RunEnd(text, i, k) ==
    IF i <= Len(text) /\ InClass(text[i], k) THEN RunEnd(text, i + 1, k) ELSE i

\* The alternative of the regular expression that matches at a character, 0 if
\* none does.
Alternative(c) ==
    IF InClass(c, 1) THEN 1
    ELSE IF InClass(c, 2) THEN 2
    ELSE IF InClass(c, 3) THEN 3 ELSE 0

\* text.match(/[\w']+|[^\w\s]+|\s+/g) || []  from position i on: a character
\* at which no alternative matches is skipped.
RECURSIVE MatchFrom(_, _)
MatchFrom(text, i) ==
    IF i > Len(text) THEN <<>>
    ELSE LET k == Alternative(text[i])
         IN IF k = 0 THEN MatchFrom(text, i + 1)
            ELSE LET j == RunEnd(text, i, k)
                 IN <<SubSeq(text, i, j - 1)>> \o MatchFrom(text, j)

Tokenize(text) == MatchFrom(text, 1)

\* /^\s+$/.test(word)
IsWhitespace(word) == word # <<>> /\ \A i \in 1..Len(word) : word[i] \in SpaceChars
\* /^[^\w]+$/.test(word)
IsNonWord(word) == word # <<>> /\ \A i \in 1..Len(word) : word[i] \notin WordChars
\* the else branch of prepareDisplay's forEach: a span pushed on wordElements
IsWordToken(word) == ~IsWhitespace(word) /\ ~IsNonWord(word)

\* dataset.index taken from the forEach index instead of wordElements.length.
DatasetIndexOfToken(i, n) == i - 1

\* span.dataset.index of the word span created for token i (1-based) when n
\* word elements have been pushed: wordElements.length (line 99).
DatasetIndex(i, n) == n

\* The forEach of prepareDisplay from token i on, n word elements pushed so
\* far: the nodes appended to shadowingDisplay, one per token, with the class
\* and the dataset.index of each (-1: the node carries none).
RECURSIVE RenderFrom(_, _, _)
RenderFrom(ws, i, n) ==
    IF i > Len(ws) THEN <<>>
    ELSE IF IsWhitespace(ws[i])
         THEN <<[cls |-> "space", index |-> -1]>> \o RenderFrom(ws, i + 1, n)
         ELSE IF IsNonWord(ws[i])
              THEN <<[cls |-> "punctuation", index |-> -1]>> \o RenderFrom(ws, i + 1, n)
              ELSE <<[cls |-> "word", index |-> DatasetIndex(i, n)]>>
                       \o RenderFrom(ws, i + 1, n + 1)

Render(ws) == RenderFrom(ws, 1, 0)

\* wordElements.length for a token list
NumWordElements(ws) == Cardinality({i \in 1..Len(ws) : IsWordToken(ws[i])})


\* ------------------------------------------------------------------- state
VARIABLES
    words,             \* app.js `words`: the token list of the displayed text
    currentWordIndex,  \* app.js `currentWordIndex`
    activeEls,         \* indices of the wordElements carrying the CSS class 'active'
    isShadowingMode,   \* app.js `isShadowingMode`
    highlightTimer,    \* app.js `highlightTimer`: handle of the interval, 0 = null
    tickers,           \* the setInterval timers that are running: [id, wordIndex]
    boundaryFired,     \* app.js `boundaryFired`
    isSingleWordMode,  \* app.js `isSingleWordMode`
    btnDisabled,       \* btnPlay/btnSlow/btnShadowing .disabled
    btnStopDisabled,   \* btnStop.disabled
    statusText,        \* statusText.textContent
    breakdown,         \* what breakdownDisplay shows: "empty", "info", "notfound"
    onEnd,             \* tts.js `onEnd`: which callback is installed
    queue,             \* speechSynthesis: the utterances queued or being spoken
    cancelled,         \* bag of cancelled utterances whose notifications are still queued
    restartTimers,     \* pending setTimeout(..., 1000) callbacks of startShadowingMode
    sessionBoundary,   \* history: a boundary was processed since the session was prepared
    requests,          \* history: the speech requests the user has made
    ev,                \* history: the handler that ran last
    call               \* the last call made directly to prepareDisplay, Dictionary.load or
                       \* Dictionary.lookup, with the store load left in wordData

vars == <<words, currentWordIndex, activeEls, isShadowingMode, highlightTimer,
          tickers, boundaryFired, isSingleWordMode, btnDisabled, btnStopDisabled,
          statusText, breakdown, onEnd, queue, cancelled, restartTimers,
          sessionBoundary, requests, ev, call>>

TimerIds == {1, 2}
\* A pending restart timer was scheduled on the terminal notification of the live
\* session's normal-speed utterance ("normal") or of another utterance ("other"),
\* or belongs to a session that was stopped ("stopped") or superseded ("old").
TimerTags == {"normal", "other", "old", "stopped"}

\* op: the handler; kind, cur: the utterance or timer it ran for; k: the word
\* index a boundary notification resolved to; acted: it got past its guard.
Event(op, kind, cur, k, acted) ==
    [op |-> op, kind |-> kind, cur |-> cur, k |-> k, acted |-> acted]

Utterance(kind) == [kind |-> kind, cur |-> TRUE]

RECURSIVE SeqToBag(_)
SeqToBag(q) == IF q = <<>> THEN EmptyBag ELSE SetToBag({Head(q)}) (+) SeqToBag(Tail(q))

\* The utterances of a bag, marked as belonging to a superseded session.
Supersede(B) ==
    LET olds == {[kind |-> u.kind, cur |-> FALSE] : u \in BagToSet(B)}
    IN [o \in olds |-> CopiesIn([kind |-> o.kind, cur |-> TRUE], B) + CopiesIn(o, B)]

NumTimers(rt) == rt["normal"] + rt["other"] + rt["old"] + rt["stopped"]

SupersedeTimers(rt) ==
    [normal |-> 0, other |-> 0, old |-> rt["normal"] + rt["other"] + rt["old"],
     stopped |-> rt["stopped"]]

StoppedTimers(rt) ==
    [normal |-> 0, other |-> 0, old |-> rt["old"],
     stopped |-> rt["normal"] + rt["other"] + rt["stopped"]]

\* ------------------------------------------------- app.js helper functions
\* highlightWord(index) without the removal of the previous highlight.
highlightWordKeepPrevious(act, cur, n, index) ==
    act \cup (IF index >= 0 /\ index < n THEN {index} ELSE {})

\* highlightWord(index): the new set of 'active' elements
highlightWord(act, cur, n, index) ==
    (act \ (IF cur >= 0 /\ cur < n THEN {cur} ELSE {}))
        \cup (IF index >= 0 /\ index < n THEN {index} ELSE {})

\* stopHighlighting() without clearInterval: the handle is dropped, the
\* interval keeps running.
stopHighlightingKeepInterval(tk, ht) == tk

\* stopHighlighting(): the intervals left running
stopHighlighting(tk, ht) ==
    IF ht # 0 THEN {t \in tk : t.id # ht} ELSE tk

FreshId(tk) == CHOOSE i \in TimerIds : \A j \in TimerIds : (j \notin {t.id : t \in tk}) => i <= j

\* startHighlighting(rate) with the first word left to the first firing of the
\* interval instead of being highlighted at once.
startHighlightingAfterInterval(tk, ht, n, cur, act) ==
    LET stopped == stopHighlighting(tk, ht)
    IN IF n = 0
       THEN [tk |-> stopped, ht |-> 0, idx |-> cur, act |-> act]
       ELSE LET id == FreshId(stopped)
            IN [tk |-> stopped \cup {[id |-> id, wordIndex |-> 0]},
                ht |-> id,
                idx |-> cur,
                act |-> act]

\* startHighlighting(rate) run on a state with n word elements, index cur and
\* active set act: the resulting ticker set, handle, index and active set.
startHighlighting(tk, ht, n, cur, act) ==
    LET stopped == stopHighlighting(tk, ht)
    IN IF n = 0
       THEN [tk |-> stopped, ht |-> 0, idx |-> cur, act |-> act]
       ELSE LET id == FreshId(stopped)
            IN [tk |-> stopped \cup {[id |-> id, wordIndex |-> 1]},
                ht |-> id,
                idx |-> 0,
                act |-> highlightWord(act, cur, n, 0)]

\* TTS.stop(): speechSynthesis.cancel() empties the engine queue.
TTSstop(q) == [queue |-> <<>>, gone |-> SeqToBag(q)]

\* TTS.speak(text, rate): stop(), then speechSynthesis.speak(utterance).
\* `gone` are the utterances the call cancelled.
speak(q, kind) ==
    LET st == TTSstop(q)
    IN [queue |-> Append(st.queue, Utterance(kind)), gone |-> st.gone]

\* prepareDisplay(text): words, currentWordIndex, boundaryFired and the
\* 'active' classes of the freshly created word elements.
prepareDisplay(text) ==
    [words |-> Tokenize(text), idx |-> -1, fired |-> FALSE, act |-> {}]

\* text.length of the displayed text
RECURSIVE TextLen(_)
TextLen(ws) == IF ws = <<>> THEN 0 ELSE Len(Head(ws)) + TextLen(Tail(ws))

\* The charIndex values a boundary notification may carry.
Offsets == 0..TextLen(words)

\* The loop of handleWordBoundary from token i on (1-based): the index passed
\* to highlightWord, or -1 when the loop ends without highlighting.
RECURSIVE BoundaryWalk(_, _, _, _, _)
BoundaryWalk(ws, i, charCount, wordIdx, charIndex) ==
    IF i > Len(ws) THEN -1
    ELSE IF IsWhitespace(ws[i]) \/ IsNonWord(ws[i])
         THEN BoundaryWalk(ws, i + 1, charCount + Len(ws[i]), wordIdx, charIndex)
         ELSE IF charCount <= charIndex /\ charIndex < charCount + Len(ws[i])
              THEN wordIdx
              ELSE BoundaryWalk(ws, i + 1,
                                charCount + Len(ws[i]) + (IF i < Len(ws) THEN 1 ELSE 0),
                                wordIdx + 1, charIndex)

\* The walk with an offset that matches no word resolved to the last word.
ResolveOrLast(ws, charIndex) ==
    LET k == BoundaryWalk(ws, 1, 0, 0, charIndex)
    IN IF k = -1 THEN NumWordElements(ws) - 1 ELSE k

ResolveBoundary(ws, charIndex) == BoundaryWalk(ws, 1, 0, 0, charIndex)

\* Whether handleWordBoundary ignores the notification (line 276).
IgnoresBoundary == isSingleWordMode

\* Whether a tick of the interval leaves the index alone (line 219).
TickInert == boundaryFired

\* The bound on pending work: every utterance ends as at most one restart timer
\* and every restart timer as at most one utterance, so only the requests of the
\* user, which start a new utterance, are limited.
CanRequest ==
    /\ requests < MaxRequests
    /\ Len(queue) + BagCardinality(cancelled) + NumTimers(restartTimers) < MaxPending

Init ==
    /\ words = <<>>
    /\ currentWordIndex = -1
    /\ activeEls = {}
    /\ isShadowingMode = FALSE
    /\ highlightTimer = 0
    /\ tickers = {}
    /\ boundaryFired = FALSE
    /\ isSingleWordMode = FALSE
    /\ btnDisabled = FALSE
    /\ btnStopDisabled \in BOOLEAN
    /\ statusText = "Ready"
    /\ breakdown = "empty"
    /\ onEnd = "handleSpeechEnd"
    /\ queue = <<>>
    /\ cancelled = EmptyBag
    /\ restartTimers = [normal |-> 0, other |-> 0, old |-> 0, stopped |-> 0]
    /\ sessionBoundary = FALSE
    /\ requests = 0
    /\ ev = Event("init", "none", FALSE, -1, FALSE)
    /\ call = [op |-> "none"]


\* ------------------------------------------------------------ user actions
\* handlePlay (kind "play", rate 1.0) and handleSlow (kind "slow", rate 0.7)
PlayAtRate(raw, kind, status) ==
    /\ ~btnDisabled
    /\ UNCHANGED call
    /\ LET text == getCurrentText(raw)
       IN IF text = <<>>
          THEN /\ statusText' = "Please enter some text"
               /\ ev' = Event(kind, "none", FALSE, -1, FALSE)
               /\ UNCHANGED <<words, currentWordIndex, activeEls, isShadowingMode,
                              highlightTimer, tickers, boundaryFired, isSingleWordMode,
                              btnDisabled, btnStopDisabled, breakdown, onEnd, queue,
                              cancelled, restartTimers, sessionBoundary, requests>>
          ELSE /\ CanRequest
               /\ LET d == prepareDisplay(text)
                      h == startHighlighting(tickers, highlightTimer,
                                             NumWordElements(d.words), d.idx, d.act)
                      s == speak(queue, kind)
                  IN /\ words' = d.words
                     /\ boundaryFired' = d.fired
                     /\ currentWordIndex' = h.idx
                     /\ activeEls' = h.act
                     /\ tickers' = h.tk
                     /\ highlightTimer' = h.ht
                     /\ queue' = s.queue
                     /\ cancelled' = Supersede(cancelled (+) s.gone)
               /\ btnDisabled' = TRUE
               /\ btnStopDisabled' = FALSE
               /\ statusText' = status
               /\ restartTimers' = SupersedeTimers(restartTimers)
               /\ sessionBoundary' = FALSE
               /\ requests' = requests + 1
               /\ ev' = Event(kind, kind, TRUE, -1, TRUE)
               /\ UNCHANGED <<isShadowingMode, isSingleWordMode, breakdown, onEnd>>

Play(raw) == PlayAtRate(raw, "play", "Playing...")

Slow(raw) == PlayAtRate(raw, "slow", "Playing (slow)...")

\* handleShadowing + startShadowingMode
Shadow(raw) ==
    /\ ~btnDisabled
    /\ UNCHANGED call
    /\ LET text == getCurrentText(raw)
       IN IF text = <<>>
          THEN /\ statusText' = "Please enter some text"
               /\ ev' = Event("shadow", "none", FALSE, -1, FALSE)
               /\ UNCHANGED <<words, currentWordIndex, activeEls, isShadowingMode,
                              highlightTimer, tickers, boundaryFired, isSingleWordMode,
                              btnDisabled, btnStopDisabled, breakdown, onEnd, queue,
                              cancelled, restartTimers, sessionBoundary, requests>>
          ELSE /\ CanRequest
               /\ LET d == prepareDisplay(text)
                      s == speak(queue, "shadowNormal")
                  IN /\ words' = d.words
                     /\ boundaryFired' = d.fired
                     /\ currentWordIndex' = d.idx
                     /\ activeEls' = d.act
                     /\ queue' = s.queue
                     /\ cancelled' = Supersede(cancelled (+) s.gone)
               /\ isShadowingMode' = TRUE
               /\ btnDisabled' = TRUE
               /\ btnStopDisabled' = FALSE
               /\ statusText' = "Shadowing: Listen first..."
               /\ onEnd' = "shadowPhase1"
               /\ restartTimers' = SupersedeTimers(restartTimers)
               /\ sessionBoundary' = FALSE
               /\ requests' = requests + 1
               /\ ev' = Event("shadow", "shadowNormal", TRUE, -1, TRUE)
               /\ UNCHANGED <<highlightTimer, tickers, isSingleWordMode, breakdown>>

\* handleStop: the value of boundaryFired afterwards
StopBoundaryFired == boundaryFired

\* handleStop
Stop ==
    /\ ~btnStopDisabled
    /\ UNCHANGED call
    /\ LET st == TTSstop(queue)
       IN /\ queue' = st.queue
          /\ cancelled' = Supersede(cancelled (+) st.gone)
    /\ isShadowingMode' = FALSE
    /\ tickers' = stopHighlighting(tickers, highlightTimer)
    /\ highlightTimer' = 0
    /\ activeEls' = {}
    /\ currentWordIndex' = -1
    /\ boundaryFired' = StopBoundaryFired
    /\ btnDisabled' = FALSE
    /\ btnStopDisabled' = TRUE
    /\ statusText' = "Stopped"
    /\ onEnd' = "handleSpeechEnd"
    /\ restartTimers' = StoppedTimers(restartTimers)
    /\ sessionBoundary' = FALSE
    /\ ev' = Event("stop", "none", FALSE, -1, TRUE)
    /\ UNCHANGED <<words, isSingleWordMode, breakdown, requests>>

\* handleWordClick: Dictionary.lookup finds the clicked word or does not
\* (the store is data/words.json, loaded at startup).
WordClick(found) ==
    /\ NumWordElements(words) > 0
    /\ UNCHANGED call
    /\ breakdown' = IF found THEN "info" ELSE "notfound"
    /\ ev' = Event("wordClick", "none", FALSE, -1, found)
    /\ UNCHANGED <<words, currentWordIndex, activeEls, isShadowingMode, highlightTimer,
                   tickers, boundaryFired, isSingleWordMode, btnDisabled,
                   btnStopDisabled, statusText, onEnd, queue, cancelled,
                   restartTimers, sessionBoundary, requests>>

\* handleBreakdownClick on the play-word button (found = TRUE, the panel stays)
\* or on a family word (the panel is re-rendered for the looked-up word).
BreakdownClick(family, found) ==
    /\ breakdown = "info"
    /\ UNCHANGED call
    /\ CanRequest
    /\ breakdown' = IF family /\ ~found THEN "notfound" ELSE "info"
    /\ isSingleWordMode' = TRUE
    /\ LET s == speak(queue, "word")
       IN /\ queue' = s.queue
          /\ cancelled' = cancelled (+) s.gone
    /\ requests' = requests + 1
    /\ ev' = Event("breakdownClick", "word", TRUE, -1, TRUE)
    /\ UNCHANGED <<words, currentWordIndex, activeEls, isShadowingMode, highlightTimer,
                   tickers, boundaryFired, btnDisabled, btnStopDisabled, statusText,
                   onEnd, restartTimers, sessionBoundary>>


\* ---------------------------------------------------------- engine actions
\* handleWordBoundary(charIndex, charLength), called through utterance.onboundary
HandleWordBoundary(c) ==
    IF IgnoresBoundary
    THEN UNCHANGED <<boundaryFired, currentWordIndex, activeEls, sessionBoundary>>
    ELSE /\ boundaryFired' = TRUE
         /\ sessionBoundary' = TRUE
         /\ LET k == ResolveBoundary(words, c)
            IN IF k = -1
               THEN UNCHANGED <<currentWordIndex, activeEls>>
               ELSE /\ currentWordIndex' = k
                    /\ activeEls' = highlightWord(activeEls, currentWordIndex,
                                                  NumWordElements(words), k)

\* A word-boundary notification of the utterance being spoken.
Boundary(c) ==
    /\ queue # <<>>
    /\ UNCHANGED call
    /\ HandleWordBoundary(c)
    /\ ev' = Event("boundary", Head(queue).kind, Head(queue).cur,
                  IF IgnoresBoundary THEN -1 ELSE ResolveBoundary(words, c),
                  ~IgnoresBoundary)
    /\ UNCHANGED <<words, isShadowingMode, highlightTimer, tickers, isSingleWordMode,
                   btnDisabled, btnStopDisabled, statusText, breakdown, onEnd, queue,
                   cancelled, restartTimers, requests>>

\* A late word-boundary notification of a cancelled utterance.
CancelledBoundary(u, c) ==
    /\ BagIn(u, cancelled)
    /\ UNCHANGED call
    /\ HandleWordBoundary(c)
    /\ ev' = Event("cancelledBoundary", u.kind, u.cur,
                  IF IgnoresBoundary THEN -1 ELSE ResolveBoundary(words, c),
                  ~IgnoresBoundary)
    /\ UNCHANGED <<words, isShadowingMode, highlightTimer, tickers, isSingleWordMode,
                   btnDisabled, btnStopDisabled, statusText, breakdown, onEnd, queue,
                   cancelled, restartTimers, requests>>

\* The tag of the restart timer scheduled when the terminal notification of
\* utterance u runs the first onEnd callback of startShadowingMode.
TimerTag(u) == IF u.kind = "shadowNormal" /\ u.cur THEN "normal" ELSE "other"

\* handleSpeechEnd
handleSpeechEnd ==
    IF isSingleWordMode
    THEN /\ isSingleWordMode' = FALSE
         /\ UNCHANGED <<currentWordIndex, activeEls, isShadowingMode, highlightTimer,
                        tickers, btnDisabled, btnStopDisabled, statusText, onEnd,
                        restartTimers>>
    ELSE /\ tickers' = stopHighlighting(tickers, highlightTimer)
         /\ highlightTimer' = 0
         /\ activeEls' = {}
         /\ currentWordIndex' = -1
         /\ btnDisabled' = FALSE
         /\ btnStopDisabled' = TRUE
         /\ statusText' = "Done. Click words to learn more."
         /\ UNCHANGED <<isSingleWordMode, isShadowingMode, onEnd, restartTimers>>

\* The first onEnd callback of startShadowingMode (lines 171-191), run for the
\* terminal notification of utterance u: it schedules the restart timer.
ShadowPhase1End(u) ==
    IF ~isShadowingMode
    THEN UNCHANGED <<currentWordIndex, activeEls, isShadowingMode, highlightTimer,
                     tickers, isSingleWordMode, btnDisabled, btnStopDisabled,
                     statusText, onEnd, restartTimers>>
    ELSE /\ statusText' = "Shadowing: Get ready to follow..."
         /\ restartTimers' =
                [restartTimers EXCEPT ![TimerTag(u)] = restartTimers[TimerTag(u)] + 1]
         /\ UNCHANGED <<currentWordIndex, activeEls, isShadowingMode, highlightTimer,
                        tickers, isSingleWordMode, btnDisabled, btnStopDisabled, onEnd>>

\* handleShadowingComplete, the onEnd callback of the slow phase
handleShadowingComplete ==
    /\ isShadowingMode' = FALSE
    /\ tickers' = stopHighlighting(tickers, highlightTimer)
    /\ highlightTimer' = 0
    /\ activeEls' = {}
    /\ currentWordIndex' = -1
    /\ btnDisabled' = FALSE
    /\ btnStopDisabled' = TRUE
    /\ statusText' = "Shadowing complete! Click words to learn more."
    /\ onEnd' = "handleSpeechEnd"
    /\ UNCHANGED <<isSingleWordMode, restartTimers>>

\* `if (onEnd) onEnd()` of utterance.onend / utterance.onerror for utterance u
OnEndCallback(u) ==
    CASE onEnd = "handleSpeechEnd" -> handleSpeechEnd
      [] onEnd = "shadowPhase1" -> ShadowPhase1End(u)
      [] onEnd = "shadowPhase2" -> handleShadowingComplete

\* The terminal notification (end or error) of the utterance being spoken.
SpeechEnd ==
    /\ queue # <<>>
    /\ UNCHANGED call
    /\ queue' = Tail(queue)
    /\ OnEndCallback(Head(queue))
    /\ ev' = Event("speechEnd", Head(queue).kind, Head(queue).cur, -1, TRUE)
    /\ UNCHANGED <<words, boundaryFired, breakdown, cancelled, sessionBoundary, requests>>

\* The late terminal notification (error) of a cancelled utterance.
CancelledEnd(u) ==
    /\ BagIn(u, cancelled)
    /\ UNCHANGED call
    /\ cancelled' = cancelled (-) SetToBag({u})
    /\ OnEndCallback(u)
    /\ ev' = Event("cancelledEnd", u.kind, u.cur, -1, TRUE)
    /\ UNCHANGED <<words, boundaryFired, breakdown, queue, sessionBoundary, requests>>

\* The engine drops the queued notifications of a cancelled utterance.
CancelledDiscard(u) ==
    /\ BagIn(u, cancelled)
    /\ UNCHANGED call
    /\ cancelled' = cancelled (-) SetToBag({u})
    /\ ev' = Event("cancelledDiscard", u.kind, u.cur, -1, FALSE)
    /\ UNCHANGED <<words, currentWordIndex, activeEls, isShadowingMode, highlightTimer,
                   tickers, boundaryFired, isSingleWordMode, btnDisabled,
                   btnStopDisabled, statusText, breakdown, onEnd, queue,
                   restartTimers, sessionBoundary, requests>>

\* ----------------------------------------------------------- timer actions
\* The setTimeout callback of startShadowingMode (lines 177-190).
RestartTimer(tag) ==
    /\ restartTimers[tag] > 0
    /\ UNCHANGED call
    /\ restartTimers' = [restartTimers EXCEPT ![tag] = restartTimers[tag] - 1]
    /\ IF ~isShadowingMode
       THEN /\ ev' = Event("restartTimer", tag, FALSE, -1, FALSE)
            /\ UNCHANGED <<currentWordIndex, activeEls, highlightTimer, tickers,
                           boundaryFired, statusText, onEnd, queue, cancelled>>
       ELSE /\ statusText' = "Shadowing: Follow along!"
            /\ onEnd' = "shadowPhase2"
            /\ boundaryFired' = FALSE
            /\ LET h == startHighlighting(tickers, highlightTimer,
                                          NumWordElements(words), currentWordIndex,
                                          activeEls)
                   s == speak(queue, "shadowSlow")
               IN /\ currentWordIndex' = h.idx
                  /\ activeEls' = h.act
                  /\ tickers' = h.tk
                  /\ highlightTimer' = h.ht
                  /\ queue' = s.queue
                  /\ cancelled' = cancelled (+) s.gone
            /\ ev' = Event("restartTimer", tag, TRUE, -1, TRUE)
    /\ UNCHANGED <<words, isShadowingMode, isSingleWordMode, btnDisabled,
                   btnStopDisabled, breakdown, sessionBoundary, requests>>

\* One firing of the setInterval callback of startHighlighting (lines 217-229).
Tick(t) ==
    /\ t \in tickers
    /\ UNCHANGED call
    /\ IF TickInert
       THEN /\ ev' = Event("tick", "none", FALSE, -1, FALSE)
            /\ UNCHANGED <<currentWordIndex, activeEls, tickers, highlightTimer>>
       ELSE IF t.wordIndex < NumWordElements(words)
            THEN /\ currentWordIndex' = t.wordIndex
                 /\ activeEls' = highlightWord(activeEls, currentWordIndex,
                                               NumWordElements(words), t.wordIndex)
                 /\ tickers' = (tickers \ {t})
                                  \cup {[id |-> t.id, wordIndex |-> t.wordIndex + 1]}
                 /\ ev' = Event("tick", "none", FALSE, -1, TRUE)
                 /\ UNCHANGED highlightTimer
            ELSE /\ tickers' = stopHighlighting(tickers, highlightTimer)
                 /\ highlightTimer' = 0
                 /\ ev' = Event("tick", "none", FALSE, -1, FALSE)
                 /\ UNCHANGED <<currentWordIndex, activeEls>>
    /\ UNCHANGED <<words, isShadowingMode, boundaryFired, isSingleWordMode, btnDisabled,
                   btnStopDisabled, statusText, breakdown, onEnd, queue, cancelled,
                   restartTimers, sessionBoundary, requests>>

UtteranceKinds == {"play", "slow", "shadowNormal", "shadowSlow", "word"}
Utterances == [kind : UtteranceKinds, cur : BOOLEAN]

Next ==
    \/ \E raw \in Inputs : Play(raw)
    \/ \E raw \in Inputs : Slow(raw)
    \/ \E raw \in Inputs : Shadow(raw)
    \/ Stop
    \/ \E found \in BOOLEAN : WordClick(found)
    \/ \E family \in BOOLEAN, found \in BOOLEAN : BreakdownClick(family, found)
    \/ \E c \in Offsets : Boundary(c)
    \/ \E u \in Utterances, c \in Offsets : CancelledBoundary(u, c)
    \/ SpeechEnd
    \/ \E u \in Utterances : CancelledEnd(u)
    \/ \E u \in Utterances : CancelledDiscard(u)
    \/ \E tag \in TimerTags : RestartTimer(tag)
    \/ \E t \in tickers : Tick(t)

Spec == Init /\ [][Next]_vars


\* ------------------------------------------------------------------ claims
\* The character offset at which token i starts in the displayed text.
StartOffset(ws, i) == TextLen(SubSeq(ws, 1, i - 1))

\* The Word-index of token i: the number of Word tokens before it.
WordIndexOf(ws, i) == Cardinality({j \in 1..(i - 1) : IsWordToken(ws[j])})

\* Every whitespace token of the text is one space.
SingleSpaced(ws) == \A i \in 1..Len(ws) : IsWhitespace(ws[i]) => Len(ws[i]) = 1

\* The first phase of a shadowing session and the gap after it: the first
\* onEnd callback of startShadowingMode is still installed.
NormalPhaseOrGap == isShadowingMode /\ onEnd = "shadowPhase1"

WordInFlight == queue # <<>> /\ Head(queue).kind = "word"

\* C1: once a boundary notification has been processed in a session, no later
\* tick of the fallback ticker changes currentWordIndex in that session.
C1_TickAfterBoundaryInert ==
    [][(sessionBoundary /\ ev'.op = "tick") => currentWordIndex' = currentWordIndex]_vars

\* C2: outside single-word mode, a boundary notification carrying the start
\* offset of the Word token with Word-index k, in a text whose whitespace tokens
\* are single spaces, sets currentWordIndex to k.
C2_OffsetResolvesToWordIndex ==
    [][\A i \in 1..Len(words) :
          (/\ SingleSpaced(words)
           /\ IsWordToken(words[i])
           /\ ~isSingleWordMode
           /\ Boundary(StartOffset(words, i)))
          => currentWordIndex' = WordIndexOf(words, i)]_vars

\* C3: a late boundary or terminal notification of an utterance that belongs to
\* a stopped or superseded session changes neither currentWordIndex, nor the
\* running ticker, nor the controls and callbacks of the live session.
C3_StaleCallbackChangesNothing ==
    [][(ev'.op \in {"cancelledBoundary", "cancelledEnd"} /\ ~ev'.cur)
          => UNCHANGED <<currentWordIndex, activeEls, tickers, highlightTimer,
                         btnDisabled, btnStopDisabled, isShadowingMode, onEnd,
                         restartTimers>>]_vars

\* C4: the slow phase of a shadowing session is started only by the restart
\* timer that was set when the terminal notification of the session's own
\* normal-speed utterance was delivered, and never while that utterance is
\* still in flight.
C4_SlowPhaseAfterNormalEndAndGap ==
    [][(ev'.op = "restartTimer" /\ ev'.acted)
          => /\ ev'.kind = "normal"
             /\ \A i \in 1..Len(queue) : queue[i].kind # "shadowNormal"]_vars

\* C5: during the normal-speed phase of a shadowing session and the gap after
\* it no word is highlighted; when the slow phase starts on a text with at
\* least one word, the ticker is started and word 0 is highlighted.
C5_ShadowingHighlighting ==
    /\ NormalPhaseOrGap => (currentWordIndex = -1 /\ activeEls = {})
    /\ (ev.op = "restartTimer" /\ ev.acted /\ NumWordElements(words) > 0)
          => (currentWordIndex = 0 /\ highlightTimer # 0
              /\ \E t \in tickers : t.id = highlightTimer)

\* C6: stop leaves the controller idle (play controls enabled, no utterance in
\* flight, ticker halted), and a restart timer scheduled by a stopped
\* shadowing session never starts a slow phase afterwards.
C6_StopCancelsEverything ==
    /\ ev.op = "stop" => (/\ ~btnDisabled
                          /\ queue = <<>>
                          /\ tickers = {}
                          /\ highlightTimer = 0)
    /\ ~(ev.op = "restartTimer" /\ ev.kind = "stopped" /\ ev.acted)

\* C7: right after stop, and right after a play/slow/shadow request has prepared
\* its session, the index is -1 (or 0, set by the request's own
\* startHighlighting), no ticker of the previous session is running and
\* boundaryFired is false.
C7_SynchronizerReset ==
    /\ ev.op = "stop" => (currentWordIndex = -1 /\ tickers = {} /\ ~boundaryFired)
    /\ (ev.op \in {"play", "slow"} /\ ev.acted)
          => /\ ~boundaryFired
             /\ currentWordIndex = (IF NumWordElements(words) > 0 THEN 0 ELSE -1)
             /\ \A t \in tickers : t.id = highlightTimer /\ t.wordIndex = 1
    /\ (ev.op = "shadow" /\ ev.acted)
          => (currentWordIndex = -1 /\ tickers = {} /\ ~boundaryFired)

\* C8: while a single-word utterance is in flight, no boundary notification
\* changes currentWordIndex or sets boundaryFired, and no tick of a fallback
\* ticker advances the index or starts a ticker.
C8_SingleWordSuppressesHighlighting ==
    [][(WordInFlight /\ ev'.op \in {"boundary", "cancelledBoundary", "tick"})
          => /\ UNCHANGED <<currentWordIndex, activeEls, boundaryFired>>
             /\ {t.id : t \in tickers'} \subseteq {t.id : t \in tickers}]_vars


\* C9: at most one utterance is in flight and at most one ticker is running;
\* every play/slow/shadow/single-word request leaves only its own utterance in
\* the engine queue and no ticker running but the one it started itself.
C9_OneSessionEveryRequestHaltsTicker ==
    /\ Len(queue) <= 1
    /\ Cardinality(tickers) <= 1
    /\ (ev.op \in {"play", "slow", "shadow", "breakdownClick"} /\ ev.acted)
          => /\ queue = <<Utterance(ev.kind)>>
             /\ \A t \in tickers : /\ ev.op \in {"play", "slow"}
                                   /\ t.id = highlightTimer
                                   /\ t.wordIndex = 1

\* The engine delivers exactly one terminal notification per utterance: the
\* notifications of a cancelled utterance are never dropped.
LiveNext ==
    \/ \E raw \in Inputs : Play(raw)
    \/ \E raw \in Inputs : Slow(raw)
    \/ \E raw \in Inputs : Shadow(raw)
    \/ Stop
    \/ \E found \in BOOLEAN : WordClick(found)
    \/ \E family \in BOOLEAN, found \in BOOLEAN : BreakdownClick(family, found)
    \/ \E c \in Offsets : Boundary(c)
    \/ \E u \in Utterances, c \in Offsets : CancelledBoundary(u, c)
    \/ SpeechEnd
    \/ \E u \in Utterances : CancelledEnd(u)
    \/ \E tag \in TimerTags : RestartTimer(tag)
    \/ \E t \in tickers : Tick(t)

\* Terminal notifications are delivered and timers fire; the user is free.
Fairness ==
    /\ WF_vars(SpeechEnd)
    /\ \A u \in Utterances : WF_vars(CancelledEnd(u))
    /\ \A tag \in TimerTags : WF_vars(RestartTimer(tag))

LiveSpec == Init /\ [][LiveNext]_vars /\ Fairness

Idle ==
    /\ ~btnDisabled
    /\ tickers = {}
    /\ highlightTimer = 0
    /\ currentWordIndex = -1
    /\ queue = <<>>

\* Every terminal notification has been delivered and every timer has fired.
Quiescent ==
    /\ queue = <<>>
    /\ cancelled = EmptyBag
    /\ NumTimers(restartTimers) = 0

\* C10: with exactly one terminal notification per utterance, every play, slow
\* or shadowing session returns to Idle: once the notifications of all its
\* utterances are delivered and its timers have fired, the ticker is halted,
\* no word is active, the play controls are enabled and nothing is in flight.
C10_CompletionReturnsToIdle == Quiescent => Idle

\* The input is empty or holds whitespace only.
Blank(raw) == \A i \in 1..Len(raw) : raw[i] \in SpaceChars

\* C11: a play, slow or shadow request on an empty or whitespace-only input
\* changes the status message and nothing else: token list, index, highlight,
\* boundaryFired, ticker, shadowing flag, utterances, callbacks and controls
\* stay as they were.
C11_EmptyInputRejected ==
    [][ev'.op \in {"play", "slow", "shadow"}
          => \A raw \in Inputs :
                (Blank(raw) /\ (Play(raw) \/ Slow(raw) \/ Shadow(raw)))
                => /\ statusText' = "Please enter some text"
                   /\ UNCHANGED <<words, currentWordIndex, activeEls, isShadowingMode,
                                  highlightTimer, tickers, boundaryFired,
                                  isSingleWordMode, btnDisabled, btnStopDisabled,
                                  breakdown, onEnd, queue, cancelled, restartTimers>>]_vars

\* A request was rejected while the text of an earlier session is displayed.
C11_Witness ==
    /\ ev.op \in {"play", "slow", "shadow"}
    /\ ~ev.acted
    /\ statusText = "Please enter some text"
    /\ words = Tokenize(HelloWorld)


\* ------------------------------------------------------- the tokenizer alone
\* The characters of the texts handed to prepareDisplay: a letter, the
\* underscore (a \w character), the apostrophe, a punctuation mark and a blank.
TokChars == {"a", "_", "'", ".", " "}

\* The strings over the characters S of length n or less.
RECURSIVE SeqsUpTo(_, _)
SeqsUpTo(S, n) ==
    IF n = 0 THEN {<<>>}
    ELSE LET shorter == SeqsUpTo(S, n - 1)
         IN shorter \cup {Append(t, c) : t \in shorter, c \in S}

Texts == SeqsUpTo(TokChars, MaxTextLen)

\* prepareDisplay(text), called on its own.
PrepareDisplay(text) ==
    /\ LET d == prepareDisplay(text)
       IN /\ words' = d.words
          /\ currentWordIndex' = d.idx
          /\ boundaryFired' = d.fired
          /\ activeEls' = d.act
          /\ call' = [op |-> "prepareDisplay", text |-> text, nodes |-> Render(d.words)]
    /\ ev' = Event("prepareDisplay", "none", FALSE, -1, TRUE)
    /\ UNCHANGED <<isShadowingMode, highlightTimer, tickers, isSingleWordMode,
                   btnDisabled, btnStopDisabled, statusText, breakdown, onEnd, queue,
                   cancelled, restartTimers, sessionBoundary, requests>>

TokNext == \E text \in Texts : PrepareDisplay(text)

TokSpec == Init /\ [][TokNext]_vars

\* The concatenation of the tokens of a list.
RECURSIVE Flatten(_)
Flatten(ws) == IF ws = <<>> THEN <<>> ELSE Head(ws) \o Flatten(Tail(ws))

\* The positions of the nodes of class "word" in a rendered display.
WordNodes(nodes) == {p \in 1..Len(nodes) : nodes[p].cls = "word"}

\* The kind the tokenizer rule gives a character: letters, digits and the
\* apostrophe are word characters, whitespace is whitespace, the rest is
\* punctuation.
SpecKind(c) ==
    IF c \in SpaceChars THEN "space"
    ELSE IF c \in (WordChars \ {"_"}) \cup {"'"} THEN "word"
    ELSE "punctuation"

\* C12: the tokens of every text are non-empty, and concatenated in order they
\* are the text.
C12_TokenizerRoundTrip ==
    call.op = "prepareDisplay"
        => /\ \A i \in 1..Len(words) : words[i] # <<>>
           /\ Flatten(words) = call.text

\* A text of the three kinds of token has been tokenized.
C12_Witness ==
    /\ call.op = "prepareDisplay"
    /\ Len(call.text) = MaxTextLen
    /\ \E i, j, k \in 1..Len(words) :
          /\ IsWhitespace(words[i])
          /\ IsNonWord(words[j]) /\ ~IsWhitespace(words[j])
          /\ IsWordToken(words[k])

\* C13: the word spans of a rendered text carry the indices 0..N-1 in
\* left-to-right order, N the number of Word tokens, without gap or duplicate;
\* the nodes of punctuation and whitespace tokens carry no index.
C13_WordIndexing ==
    call.op = "prepareDisplay"
        => LET nodes == call.nodes
               W == WordNodes(nodes)
           IN /\ Len(nodes) = Len(words)
              /\ W = {p \in 1..Len(words) : IsWordToken(words[p])}
              /\ \A p \in W : nodes[p].index = Cardinality({q \in W : q < p})
              /\ {nodes[p].index : p \in W} = 0..(Cardinality(W) - 1)
              /\ \A p \in (1..Len(nodes)) \ W : nodes[p].index = -1

\* A text with two Word tokens and another token between them has been rendered.
C13_Witness ==
    /\ call.op = "prepareDisplay"
    /\ \E p, q, r \in 1..Len(call.nodes) :
          /\ p < q /\ q < r
          /\ call.nodes[p].cls = "word"
          /\ call.nodes[q].cls # "word"
          /\ call.nodes[r].cls = "word"
          /\ call.nodes[r].index = 1

\* C20: every token is a run of characters of one class of the tokenizer rule
\* (Word: letters, digits, apostrophe; Punctuation; Whitespace), the class it
\* is displayed as; no two adjacent tokens have the same class; a token with an
\* apostrophe is a Word token; and the offset-to-index walk skips exactly the
\* tokens that are not displayed as words.
C20_MaximalRunsOfOneClass ==
    call.op = "prepareDisplay"
        => \A i \in 1..Len(words) :
              /\ \A j \in 1..Len(words[i]) : SpecKind(words[i][j]) = call.nodes[i].cls
              /\ i < Len(words) => call.nodes[i + 1].cls # call.nodes[i].cls
              /\ (\E j \in 1..Len(words[i]) : words[i][j] = "'")
                    => call.nodes[i].cls = "word"
              /\ (IsWhitespace(words[i]) \/ IsNonWord(words[i]))
                    <=> call.nodes[i].cls # "word"


\* ------------------------------------------------- the offset walk alone
\* The characters of the texts walked: a letter, a punctuation mark, a blank.
WalkChars == {"a", ".", " "}

WalkTexts == SeqsUpTo(WalkChars, MaxWalkLen)

\* highlightWord(index), called on its own as the ticker calls it.
HighlightWord(index) ==
    /\ index \in 0..(NumWordElements(words) - 1)
    /\ currentWordIndex' = index
    /\ activeEls' = highlightWord(activeEls, currentWordIndex, NumWordElements(words), index)
    /\ ev' = Event("highlightWord", "none", FALSE, index, TRUE)
    /\ UNCHANGED <<words, isShadowingMode, highlightTimer, tickers, boundaryFired,
                   isSingleWordMode, btnDisabled, btnStopDisabled, statusText,
                   breakdown, onEnd, queue, cancelled, restartTimers,
                   sessionBoundary, requests, call>>

\* handleWordBoundary(charIndex, charLength), called on its own.
WordBoundary(c) ==
    /\ HandleWordBoundary(c)
    /\ ev' = Event("wordBoundary", "none", FALSE,
                  IF IgnoresBoundary THEN -1 ELSE ResolveBoundary(words, c),
                  ~IgnoresBoundary)
    /\ UNCHANGED <<words, isShadowingMode, highlightTimer, tickers, isSingleWordMode,
                   btnDisabled, btnStopDisabled, statusText, breakdown, onEnd, queue,
                   cancelled, restartTimers, requests, call>>

WalkNext ==
    \/ \E text \in WalkTexts : PrepareDisplay(text)
    \/ \E index \in 0..MaxWalkLen : HighlightWord(index)
    \/ \E c \in Offsets : WordBoundary(c)

WalkSpec == Init /\ [][WalkNext]_vars

\* The offset at which the walk of handleWordBoundary places token i: the
\* lengths of the tokens before it, and one more for every Word token among them.
AccumulatedStart(ws, i) ==
    TextLen(SubSeq(ws, 1, i - 1))
        + Cardinality({j \in 1..(i - 1) : IsWordToken(ws[j])})

\* The offset falls inside the accumulated range of no Word token.
Unresolvable(ws, c) ==
    \A i \in 1..Len(ws) :
        IsWordToken(ws[i])
            => ~(AccumulatedStart(ws, i) <= c /\ c < AccumulatedStart(ws, i) + Len(ws[i]))

\* C18: a boundary notification whose offset falls inside the accumulated range
\* of no Word token leaves currentWordIndex and the highlighted word unchanged.
C18_UnresolvableOffsetNoHighlightChange ==
    [][\A c \in Offsets :
          (/\ Unresolvable(words, c)
           /\ \/ WordBoundary(c)
              \/ Boundary(c)
              \/ \E u \in Utterances : CancelledBoundary(u, c))
          => UNCHANGED <<currentWordIndex, activeEls>>]_vars

\* A boundary notification whose offset lies in the punctuation after the
\* highlighted word was processed and resolved to no word.
C18_Witness ==
    /\ ev.op = "wordBoundary"
    /\ ev.acted
    /\ ev.k = -1
    /\ words = <<<<"a">>, <<".">>>>
    /\ boundaryFired
    /\ currentWordIndex = 0
    /\ activeEls = {0}


\* ------------------------------------------------- the Dictionary module
\* dictionary.js works on strings of any characters; here a string is the
\* sequence of its characters.
UpperCase == <<"A", "B", "C", "D", "E", "F", "G", "H", "I", "J", "K", "L", "M", "N", "O", "P", "Q", "R", "S", "T", "U", "V", "W", "X", "Y", "Z">>
LowerCase == <<"a", "b", "c", "d", "e", "f", "g", "h", "i", "j", "k", "l", "m", "n", "o", "p", "q", "r", "s", "t", "u", "v", "w", "x", "y", "z">>

\* String.prototype.toLowerCase, on one character
toLowerCase(c) ==
    IF \E i \in 1..Len(UpperCase) : UpperCase[i] = c
    THEN LowerCase[CHOOSE i \in 1..Len(UpperCase) : UpperCase[i] = c]
    ELSE c

\* a character that replace(/[^a-z]/g, '') keeps
IsLowerLetter(c) == \E i \in 1..Len(LowerCase) : LowerCase[i] = c

\* word.replace(/[^a-z]/g, ''), without the toLowerCase() before it.
StripNonLetters(word) == SelectSeq(word, IsLowerLetter)

\* word.toLowerCase().replace(/[^a-z]/g, '')  (line 59)
Normalize(word) ==
    SelectSeq([i \in 1..Len(word) |-> toLowerCase(word[i])], IsLowerLetter)

\* wordData is a plain object: the store is the set of its own keys, and the
\* record of a key is named by the key.  These are the names made of the
\* letters a-z only that every plain object inherits from Object.prototype.
ObjectPrototypeKeys == {<<"c", "o", "n", "s", "t", "r", "u", "c", "t", "o", "r">>}

\* `wordData[key]` is truthy (lines 62, 71, 104, 111, 118): key is an own key,
\* whose value is a record, or an inherited property, whose value is a function.
Truthy(wordData, key) == key \in wordData \/ key \in ObjectPrototypeKeys

\* `...wordData[key]`: the records whose fields are spread into the result; an
\* inherited function has no own enumerable fields.
Spread(wordData, key) == IF key \in wordData THEN {key} ELSE {}

\* The suffixes of getBaseForm, in the order of the array (lines 87-97).
suffixes ==
    << [suffix |-> <<"i", "n", "g">>, minLength |-> 4],
       [suffix |-> <<"e", "d">>, minLength |-> 3],
       [suffix |-> <<"s">>, minLength |-> 3],
       [suffix |-> <<"e", "s">>, minLength |-> 4],
       [suffix |-> <<"e", "r">>, minLength |-> 4],
       [suffix |-> <<"e", "s", "t">>, minLength |-> 5],
       [suffix |-> <<"l", "y">>, minLength |-> 4],
       [suffix |-> <<"t", "i", "o", "n">>, minLength |-> 5],
       [suffix |-> <<"m", "e", "n", "t">>, minLength |-> 5] >>

\* word.endsWith(suffix)
EndsWith(word, suffix) ==
    /\ Len(suffix) <= Len(word)
    /\ SubSeq(word, Len(word) - Len(suffix) + 1, Len(word)) = suffix

\* base.length >= 2 && base[base.length - 1] === base[base.length - 2]
IsDoubled(base) == Len(base) >= 2 /\ base[Len(base)] = base[Len(base) - 1]

\* base.slice(0, -1)
Undoubled(base) == SubSeq(base, 1, Len(base) - 1)

\* The candidate of line 117 without the 'e' appended.
WithoutE(base) == base

\* base + 'e'
WithE(base) == Append(base, "e")

\* The loop of getBaseForm from suffix s on: the base form returned, <<>> for
\* null.
RECURSIVE BaseFormFrom(_, _, _)
BaseFormFrom(wordData, word, s) ==
    IF s > Len(suffixes) THEN <<>>
    ELSE IF Len(word) >= suffixes[s].minLength /\ EndsWith(word, suffixes[s].suffix)
         THEN LET base == SubSeq(word, 1, Len(word) - Len(suffixes[s].suffix))
              IN IF Truthy(wordData, base) THEN base
                 ELSE IF IsDoubled(base) /\ Truthy(wordData, Undoubled(base))
                      THEN Undoubled(base)
                      ELSE IF Truthy(wordData, WithE(base)) THEN WithE(base)
                           ELSE BaseFormFrom(wordData, word, s + 1)
         ELSE BaseFormFrom(wordData, word, s + 1)

getBaseForm(wordData, word) == BaseFormFrom(wordData, word, 1)

\* What lookup returns: null, or an object with `word`, with `originalWord`
\* when the match is a base form (<<>>: the field is absent), and with the
\* fields of the records spread into it.
Null == [found |-> FALSE, word |-> <<>>, originalWord |-> <<>>, record |-> {}]

WordInfo(word, originalWord, record) ==
    [found |-> TRUE, word |-> word, originalWord |-> originalWord, record |-> record]

\* Dictionary.lookup(word)
lookup(wordData, word) ==
    IF word = <<>> THEN Null
    ELSE LET normalized == Normalize(word)
         IN IF Truthy(wordData, normalized)
            THEN WordInfo(normalized, <<>>, Spread(wordData, normalized))
            ELSE LET baseForm == getBaseForm(wordData, normalized)
                 IN IF baseForm # <<>> /\ Truthy(wordData, baseForm)
                    THEN WordInfo(baseForm, normalized, Spread(wordData, baseForm))
                    ELSE Null

\* const displayWord = originalWord || word  (renderWordInfo, line 199)
displayWord(wordInfo) ==
    IF wordInfo.originalWord # <<>> THEN wordInfo.originalWord ELSE wordInfo.word

\* The keys the stores are made of; FallbackData is the store of getFallbackData.
Key_practice == <<"p", "r", "a", "c", "t", "i", "c", "e">>
Key_run == <<"r", "u", "n">>
Key_bake == <<"b", "a", "k", "e">>
Key_bak == <<"b", "a", "k">>
Key_be == <<"b", "e">>

Keys == {Key_practice, Key_run, Key_bake, Key_bak, Key_be}

FallbackData == {Key_practice}

\* What load() may leave in wordData: the object fetched from data/words.json,
\* or the fallback data.
Stores == {S \in SUBSET Keys : Cardinality(S) <= MaxStoreKeys}

\* b without its final 'e', followed by suffix s (b ends in 'e').
SilentEForm(b, s) == SubSeq(b, 1, Len(b) - 1) \o suffixes[s].suffix

\* b, its last letter once more, and suffix s.
DoubledForm(b, s) == Append(b, b[Len(b)]) \o suffixes[s].suffix

EndsInE(b) == b # <<>> /\ b[Len(b)] = "e"

\* The texts handed to lookup: the keys, their inflected forms, and forms with
\* capitals and punctuation, of no letters, of a word in no store, and of the
\* inherited property name.
SurfaceForms ==
    Keys
    \cup {SilentEForm(b, s) : b \in {k \in Keys : EndsInE(k)}, s \in 1..Len(suffixes)}
    \cup {DoubledForm(b, s) : b \in Keys, s \in 1..Len(suffixes)}
    \cup { <<>>, <<".", ".", ".">>,
           <<"P", "r", "a", "c", "t", "i", "c", "e">>,
           <<"R", "U", "N">>,
           <<"R", "u", "n", "n", "i", "n", "g">>,
           <<"B", "a", "k", "'", "i", "n", "g">>,
           <<"h", "e", "l", "l", "o">>,
           <<"c", "o", "n", "s", "t", "r", "u", "c", "t", "o", "r">>,
           <<"c", "o", "n", "s", "t", "r", "u", "c", "t", "o", "r", "s">> }

\* Dictionary.load(), called once by init(): wordData afterwards.
Load(store) ==
    /\ call.op = "none"
    /\ call' = [op |-> "load", wordData |-> store]
    /\ ev' = Event("load", "none", FALSE, -1, TRUE)
    /\ UNCHANGED <<words, currentWordIndex, activeEls, isShadowingMode, highlightTimer,
                   tickers, boundaryFired, isSingleWordMode, btnDisabled,
                   btnStopDisabled, statusText, breakdown, onEnd, queue, cancelled,
                   restartTimers, sessionBoundary, requests>>

\* Dictionary.lookup(word), called on the loaded store.
Lookup(word) ==
    /\ call.op \in {"load", "lookup"}
    /\ call' = [op |-> "lookup", wordData |-> call.wordData, word |-> word,
                wordInfo |-> lookup(call.wordData, word)]
    /\ ev' = Event("lookup", "none", FALSE, -1, TRUE)
    /\ UNCHANGED <<words, currentWordIndex, activeEls, isShadowingMode, highlightTimer,
                   tickers, boundaryFired, isSingleWordMode, btnDisabled,
                   btnStopDisabled, statusText, breakdown, onEnd, queue, cancelled,
                   restartTimers, sessionBoundary, requests>>

DictNext ==
    \/ \E store \in Stores : Load(store)
    \/ \E word \in SurfaceForms : Lookup(word)

DictSpec == Init /\ [][DictNext]_vars


\* The normal form of a surface form: lower case, every character outside a-z
\* stripped.
NormalForm(w) == SelectSeq([i \in 1..Len(w) |-> toLowerCase(w[i])], IsLowerLetter)

\* The candidates the stemmer rule tries for a key, from suffix s on: for every
\* suffix, in order, the key ends in and has the minimum length of, the
\* stripped base, the undoubled base if the base ends in a doubled letter, and
\* the base with "e".
RECURSIVE CandidatesFrom(_, _)
CandidatesFrom(key, s) ==
    IF s > Len(suffixes) THEN <<>>
    ELSE IF Len(key) >= suffixes[s].minLength /\ EndsWith(key, suffixes[s].suffix)
         THEN LET base == SubSeq(key, 1, Len(key) - Len(suffixes[s].suffix))
              IN <<base>>
                 \o (IF IsDoubled(base) THEN <<SubSeq(base, 1, Len(base) - 1)>> ELSE <<>>)
                 \o <<Append(base, "e")>>
                 \o CandidatesFrom(key, s + 1)
         ELSE CandidatesFrom(key, s + 1)

\* The first candidate of a list that is a key of the store, <<>> if none is.
RECURSIVE FirstPresent(_, _)
FirstPresent(cands, store) ==
    IF cands = <<>> THEN <<>>
    ELSE IF Head(cands) \in store THEN Head(cands)
    ELSE FirstPresent(Tail(cands), store)

\* C14: lookup of a surface form returns what lookup of its normal form
\* returns, and what lookup of every surface form of the same normal form
\* returns: the same record and matched key, or not found both.
C14_LookupNormalizationInvariant ==
    call.op = "lookup"
        => /\ call.wordInfo = lookup(call.wordData, NormalForm(call.word))
           /\ \A v \in SurfaceForms :
                 NormalForm(v) = NormalForm(call.word)
                     => lookup(call.wordData, v) = call.wordInfo

\* A surface form with capitals or punctuation was found through its base form.
C14_Witness ==
    /\ call.op = "lookup"
    /\ call.word # NormalForm(call.word)
    /\ call.wordInfo.found
    /\ call.wordInfo.originalWord = NormalForm(call.word)
    /\ call.wordInfo.word \in call.wordData

\* call.word is an inflected form of b by suffix s: b without its final "e" and
\* the suffix, or b with its last letter doubled and the suffix.
InflectedForm(b, s) ==
    \/ EndsInE(b) /\ call.word = SilentEForm(b, s)
    \/ call.word = DoubledForm(b, s)

C16_MatchedKeyInStore ==
    call.op = "lookup"
        => IF call.wordInfo.found
           THEN /\ call.wordInfo.word \in call.wordData
                /\ call.wordInfo.record = {call.wordInfo.word}
           ELSE call.wordInfo = Null

\* C17: the original surface form a result carries (originalWord, or word when
\* the match is direct: the displayWord of renderWordInfo) is the text that was
\* looked up, with its casing and punctuation.
C17_OriginalSurfaceFormPreserved ==
    (call.op = "lookup" /\ call.wordInfo.found)
        => displayWord(call.wordInfo) = call.word

\* C19: a normalized key that is in the store is returned as a direct match;
\* otherwise lookup returns the first of the candidates, in the order of the
\* suffixes and, within a suffix, of stripped base, undoubled base and base
\* with "e", that is in the store, and nothing when none is.
C19_StemmerPriority ==
    call.op = "lookup"
        => LET key == NormalForm(call.word)
               first == FirstPresent(CandidatesFrom(key, 1), call.wordData)
           IN IF key \in call.wordData
              THEN call.wordInfo = WordInfo(key, <<>>, {key})
              ELSE IF first # <<>>
                   THEN call.wordInfo = WordInfo(first, key, {first})
                   ELSE call.wordInfo = Null

\* ------------------------------------------------------ the fallback ticker
\* A play or slow session is running on the fallback signal alone: the ticker
\* of handlePlay / handleSlow is the only one that runs outside shadowing mode,
\* and no boundary notification was processed since the session was prepared.
FallbackOnly == ~isShadowingMode /\ ~sessionBoundary

\* C21: a play or slow request on a text with at least one word makes word 0
\* active in the request handler itself and starts the ticker; as long as no
\* boundary notification is processed, every tick of that session moves the
\* index from i to i + 1 (so it runs through 0, 1, ..., N-1 without skipping
\* or repeating), and the tick that finds the index at N-1 halts the ticker
\* and leaves the index alone.
C21_FallbackTickerProgression ==
    [][/\ (ev'.op \in {"play", "slow"} /\ ev'.acted /\ NumWordElements(words') >= 1)
            => /\ currentWordIndex' = 0
               /\ activeEls' = {0}
               /\ tickers' = {[id |-> highlightTimer', wordIndex |-> 1]}
       /\ (ev'.op = "tick" /\ FallbackOnly)
            => LET N == NumWordElements(words)
               IN /\ currentWordIndex \in 0..(N - 1)
                  /\ IF currentWordIndex < N - 1
                     THEN /\ currentWordIndex' = currentWordIndex + 1
                          /\ activeEls' = {currentWordIndex + 1}
                          /\ tickers' # {}
                     ELSE /\ currentWordIndex' = currentWordIndex
                          /\ activeEls' = activeEls
                          /\ tickers' = {}
                          /\ highlightTimer' = 0]_vars

\* The ticker of a play or slow session on a two-word text has shown word 0
\* and word 1 and has halted itself, with the utterance still being spoken and
\* no boundary notification received.
C21_Witness ==
    /\ ev.op = "tick"
    /\ ~ev.acted
    /\ FallbackOnly
    /\ ~boundaryFired
    /\ NumWordElements(words) = 2
    /\ currentWordIndex = 1
    /\ activeEls = {1}
    /\ tickers = {}
    /\ queue # <<>>
    /\ Head(queue).kind \in {"play", "slow"}

\* C22: in every reachable state currentWordIndex is -1 or the index of a word
\* element of the displayed text (0 <= currentWordIndex < wordElements.length),
\* and at most one word element, the one at currentWordIndex, is highlighted.
C22_ActiveIndexInRange ==
    /\ currentWordIndex \in -1..(NumWordElements(words) - 1)
    /\ Cardinality(activeEls) <= 1
    /\ activeEls \subseteq {currentWordIndex}

\* A boundary notification of a superseded utterance has moved the highlight
\* of the live session from word 0 to the last word of the two-word text.
C22_Witness ==
    /\ ev.op = "cancelledBoundary"
    /\ ev.acted
    /\ ev.k = 1
    /\ NumWordElements(words) = 2
    /\ currentWordIndex = 1
    /\ activeEls = {1}
    /\ tickers # {}

\* C23: whenever the play, slow and shadowing buttons are enabled, no interval
\* of the fallback ticker is running and isShadowingMode is false; and every
\* handler that starts an interval leaves the buttons disabled.
C23_IdleMeansQuiescentSynchronizer ==
    /\ ~btnDisabled => (tickers = {} /\ highlightTimer = 0 /\ ~isShadowingMode)
    /\ tickers # {} => btnDisabled
    /\ (ev.op \in {"play", "slow", "restartTimer"} /\ ev.acted) => btnDisabled

\* The terminal notification of a play or slow utterance has returned the
\* controller to Idle while the ticker of the session was still running: the
\* buttons are enabled again and the interval is gone.
C23_Witness ==
    /\ ev.op = "speechEnd"
    /\ ev.kind \in {"play", "slow"}
    /\ ~btnDisabled
    /\ btnStopDisabled
    /\ requests >= 1
    /\ NumWordElements(words) = 2
    /\ tickers = {}
    /\ highlightTimer = 0
    /\ ~isShadowingMode
    /\ statusText = "Done. Click words to learn more."

\* The restart timers scheduled in the live shadowing session and still pending.
SessionTimers == restartTimers["normal"] + restartTimers["other"]

\* The slow phase of the live shadowing session has been started: the second
\* onEnd callback of startShadowingMode is installed.
SlowPhaseStarted == isShadowingMode /\ onEnd = "shadowPhase2"

\* C24: within one shadowing session at most one restart timer is scheduled
\* and the slow-phase speech is started at most once: a timer is scheduled only
\* when none of the session is pending and the slow phase has not started, and
\* the slow phase is never started a second time.
C24_SlowPhaseAtMostOnce ==
    [][/\ (ev'.op \in {"speechEnd", "cancelledEnd"}
               /\ restartTimers' # restartTimers)
            => (SessionTimers = 0 /\ ~SlowPhaseStarted)
       /\ (ev'.op = "restartTimer" /\ ev'.acted) => ~SlowPhaseStarted]_vars
====
